---- MODULE Spec2Model ----
(***************************************************************************)
(* The task-set scheduler of pyxm (src/src/ui/app.py, Ui_MainWindow) with  *)
(* the task-set list (src/src/ui/widget/tasksetlist.py) and the task set   *)
(* widget (src/src/ui/widget/taskset/taskset.py).                          *)
(*                                                                         *)
(* Every handler (a Qt slot) is a function from the program state to the   *)
(* program state; a Python exception raised inside a slot ends the slot    *)
(* where it is raised and keeps the assignments made before it (PySide     *)
(* prints the traceback and returns to the event loop).  The field exc     *)
(* names the exception of the last handler.                                *)
(*                                                                         *)
(* A task set is identified by its creation number (1, 2, ...): ts[id] is  *)
(* the TaskSet object, task_sets the list of the ids in the TaskSetList.   *)
(* A task is the pair <<id, ordinal>>, ordinals counted from 0 as in the   *)
(* code.                                                                   *)
(***************************************************************************)
EXTENDS Integers, Sequences, FiniteSets, TLC

\* ---- bounds of the model ----
MaxAdds == 3        \* task sets ever added
MaxTasks == 2       \* tasks generated for one added task set
MaxTodo == 3        \* length a todo list may grow to
MaxEdits == 1       \* check-box clicks and confirmed removals
MaxFresh == 2       \* task sets in the list a scenario starts from
MaxFreshTasks == 3  \* tasks per task set in the list a scenario starts from
MaxHist == 4        \* calls recorded in a control scenario
MaxRun == 6         \* calls recorded in a play-and-complete scenario
MaxSweepVal == 2    \* largest sweep start, stop and step, in grid units
MaxSweepCalls == 3  \* calls recorded after a configuration is added
MaxKeys == 3        \* key presses in the spin boxes
MaxEditAdds == 2    \* task sets added from the edited panel
MaxListAdds == 4    \* task sets ever added in a list scenario
MaxClamps == 2      \* refreshes of a spin box in a clamp scenario
MaxKeyRun == 7      \* key presses in a scenario of key presses only
MaxRepetitions == 2 \* repetitions of a configuration
MaxDecade == 7      \* largest power of ten of a float converted: below 10^8
DecadesBelow == 15  \* smallest power of ten of a float converted: 10^-15

\* ---- Python values ----
None == 0
NoTask == <<>>
NoExc == "none"

VARIABLES
  task_sets,        \* TaskSetList.task_sets: the ids, in list order
  ts,               \* the TaskSet objects ever created, by id
  current_task_set, \* Ui_MainWindow.current_task_set: an id or None
  current_task,     \* Ui_MainWindow.current_task: a task or NoTask
  running, paused, stopped,   \* Ui_MainWindow flags
  stm_paused, stm_stopped,    \* the flags handed to the worker's device
  pause_checked,    \* pause.isChecked()
  workers,          \* tasks handed to the thread pool, finished not yet handled
  pending_delete,   \* id whose deleteLater() is posted and not yet run, or None
  finish_first,     \* a finished signal was posted before that deleteLater()
  exc,              \* exception that ended the last handler, or NoExc
  dispatched,       \* task the last handler dispatched, or NoTask
  credited,         \* task whose completed flag the last handler assigned, or NoTask
  last_ord,         \* per id: ordinal of the task of that set dispatched last, or -1
  n_edits,          \* check-box clicks and removals so far
  hist,             \* calls made so far in a scenario
  heap,             \* the ExponentialNumber objects, by object id
  spin,             \* the ScientificSpinBox widgets: value (an object id) and bounds
  descr,            \* per task set added from the panel: its tasks' parameters (object ids)
  real              \* a float handed to ExponentialNumber.from_float

vars == <<task_sets, ts, current_task_set, current_task, running, paused, stopped,
          stm_paused, stm_stopped, pause_checked, workers, pending_delete,
          finish_first, exc, dispatched, credited, last_ord, n_edits, hist,
          heap, spin, descr, real>>

\* the options panel and the quantities
panel == <<heap, spin, descr, real>>

\* ---- the program state as one value ----
State ==
  [task_sets |-> task_sets, ts |-> ts, current_task_set |-> current_task_set,
   current_task |-> current_task, running |-> running, paused |-> paused,
   stopped |-> stopped, stm_paused |-> stm_paused, stm_stopped |-> stm_stopped,
   pause_checked |-> pause_checked, workers |-> workers, exc |-> NoExc,
   dispatched |-> NoTask, credited |-> NoTask, last_ord |-> last_ord]

Commit(r) ==
  /\ task_sets' = r.task_sets
  /\ ts' = r.ts
  /\ current_task_set' = r.current_task_set
  /\ current_task' = r.current_task
  /\ running' = r.running
  /\ paused' = r.paused
  /\ stopped' = r.stopped
  /\ stm_paused' = r.stm_paused
  /\ stm_stopped' = r.stm_stopped
  /\ pause_checked' = r.pause_checked
  /\ workers' = r.workers
  /\ exc' = r.exc
  /\ dispatched' = r.dispatched
  /\ credited' = r.credited
  /\ last_ord' = r.last_ord

Raise(s, e) == [s EXCEPT !.exc = e]
Ok(s) == s.exc = NoExc

\* ---- TaskSet ----
Ordinals(t) == DOMAIN t.completed
NTasks(t) == Cardinality(Ordinals(t))

\* TaskSet.__init__ for a configuration that create_tasks expands into n tasks
NewTaskSet(idx, n) ==
  [status |-> "Ready", index |-> idx,
   completed |-> [i \in 0..(n - 1) |-> FALSE],
   checked |-> [i \in 0..(n - 1) |-> TRUE],
   enabled |-> [i \in 0..(n - 1) |-> TRUE],
   todo |-> <<>>, total_todo |-> 1, value |-> <<0, 1>>, deleted |-> FALSE]

\* the ordinals i, i+1, ... whose check box is checked, ascending
RECURSIVE CheckedFrom(_, _)
CheckedFrom(t, i) ==
  IF i >= NTasks(t) THEN <<>>
  ELSE (IF t.checked[i] THEN <<i>> ELSE <<>>) \o CheckedFrom(t, i + 1)

CompletedCount(t) == Cardinality({i \in Ordinals(t) : t.completed[i]})

\* TaskSet.update_task_bar of the set c
update_task_bar(s, c) ==
  LET t == s.ts[c] IN
  IF t.total_todo = 0 THEN Raise(s, "ZeroDivisionError")
  ELSE LET s1 == [s EXCEPT !.ts[c].value = <<CompletedCount(t), t.total_todo>>] IN
       IF t.deleted THEN Raise(s1, "RuntimeError") ELSE s1

\* TaskSet.setStatus of the set c
setStatus(s, c, status) == update_task_bar([s EXCEPT !.ts[c].status = status], c)

\* ---- Ui_MainWindow ----

\* populate_todo with a plausible defect: every task is queued, the check boxes are not read
populate_todo_all(s) ==
  LET c == s.current_task_set IN
  IF c = None THEN Raise(s, "AttributeError")
  ELSE LET t == s.ts[c]
           todo == t.todo \o [k \in 1..NTasks(t) |-> k - 1] IN
       IF NTasks(t) = 0 THEN s
       ELSE IF t.deleted THEN Raise(s, "RuntimeError")
       ELSE [s EXCEPT !.ts[c].todo = todo,
                      !.ts[c].total_todo = Len(todo)]

\* the loop of play_clicked over the check boxes of the current task set
\* (pause_clicked and restart_task_worker repeat it)
populate_todo(s) ==
  LET c == s.current_task_set IN
  IF c = None THEN Raise(s, "AttributeError")
  ELSE LET t == s.ts[c]
           todo == t.todo \o CheckedFrom(t, 0) IN
       IF NTasks(t) = 0 THEN s
       ELSE IF t.deleted THEN Raise(s, "RuntimeError")
       ELSE [s EXCEPT !.ts[c].todo = todo,
                      !.ts[c].enabled = [i \in Ordinals(t) |-> t.enabled[i] /\ t.checked[i]],
                      !.ts[c].total_todo = Len(todo)]

\* positions (from 1) of the task sets of the list that are not Finished
Unfinished(s) ==
  {k \in 1..Len(s.task_sets) : s.ts[s.task_sets[k]].status # "Finished"}

Min(S) == CHOOSE x \in S : \A y \in S : x <= y

\* play_clicked, not running: the choice of the current task set and its todo
select_task_set(s) ==
  IF Len(s.task_sets) > 0
  THEN populate_todo(IF Unfinished(s) = {} THEN s
                     ELSE [s EXCEPT !.current_task_set = s.task_sets[Min(Unfinished(s))]])
  ELSE [s EXCEPT !.current_task_set = None]

start_task(s) ==
  LET c == s.current_task_set IN
  IF c # None
  THEN LET s1 == setStatus(s, c, "Working") IN
       IF ~Ok(s1) THEN s1
       ELSE IF s1.ts[c].todo = <<>> THEN Raise(s1, "IndexError")
       ELSE LET task == <<c, Head(s1.ts[c].todo)>> IN
            [s1 EXCEPT !.current_task = task,
                       !.workers = Append(@, task),
                       !.running = TRUE,
                       !.dispatched = task,
                       !.last_ord[c] = task[2]]
  ELSE [s EXCEPT !.running = FALSE]

\* play_clicked with a plausible defect: running is not looked at
play_clicked_no_guard(s) ==
  LET s1 == select_task_set(s) IN
  IF Ok(s1) THEN start_task(s1) ELSE s1

\* play_clicked with a plausible defect: while running the todo list is built again
play_clicked_requeue(s) ==
  IF s.running THEN select_task_set(s)
  ELSE LET s1 == select_task_set(s) IN
       IF Ok(s1) THEN start_task(s1) ELSE s1

play_clicked(s) ==
  IF s.running THEN s
  ELSE LET s1 == select_task_set(s) IN
       IF Ok(s1) THEN start_task(s1) ELSE s1

\* pause_clicked with a plausible defect: un-pause starts the current task
\* set without selecting one
pause_clicked_no_select(s) ==
  IF s.pause_checked
  THEN [s EXCEPT !.paused = TRUE, !.stm_paused = TRUE]
  ELSE LET s0 == [s EXCEPT !.paused = FALSE, !.stm_paused = FALSE] IN
       IF ~s0.running THEN start_task(s0) ELSE s0

\* pause_clicked with a plausible defect: un-pause does not look at running
pause_clicked_no_guard(s) ==
  IF s.pause_checked
  THEN [s EXCEPT !.paused = TRUE, !.stm_paused = TRUE]
  ELSE LET s0 == [s EXCEPT !.paused = FALSE, !.stm_paused = FALSE]
           s1 == select_task_set(s0) IN
       IF Ok(s1) THEN start_task(s1) ELSE s1

\* s is the state with the pause button already toggled by the click
pause_clicked(s) ==
  IF s.pause_checked
  THEN [s EXCEPT !.paused = TRUE, !.stm_paused = TRUE]
  ELSE LET s0 == [s EXCEPT !.paused = FALSE, !.stm_paused = FALSE] IN
       IF ~s0.running
       THEN LET s1 == select_task_set(s0) IN
            IF Ok(s1) THEN start_task(s1) ELSE s1
       ELSE s0

stop_clicked(s) == [s EXCEPT !.stopped = TRUE, !.stm_stopped = TRUE]

\* credit_task with a plausible defect: with paused set the task is taken off
\* the todo list without being marked completed
credit_task_unmarked(s) ==
  IF s.stopped THEN s
  ELSE IF s.current_task = NoTask THEN Raise(s, "AttributeError")
  ELSE LET k == s.current_task
           c == s.current_task_set
           s1 == IF s.paused THEN s
                 ELSE [s EXCEPT !.ts[k[1]].completed[k[2]] = TRUE, !.credited = k] IN
       IF c = None THEN Raise(s1, "AttributeError")
       ELSE IF k[2] \notin Ordinals(s1.ts[c]) THEN Raise(s1, "IndexError")
       ELSE IF s1.ts[c].deleted THEN Raise(s1, "RuntimeError")
       ELSE LET s2 == [s1 EXCEPT !.ts[c].enabled[k[2]] = FALSE] IN
            IF s2.ts[c].todo = <<>> THEN Raise(s2, "IndexError")
            ELSE [s2 EXCEPT !.ts[c].todo = Tail(@)]

\* credit_task with a plausible defect: the task is credited although a stop is pending
credit_task_stopped(s) ==
  LET k == s.current_task
      c == s.current_task_set IN
  [s EXCEPT !.ts[k[1]].completed[k[2]] = TRUE,
            !.credited = k,
            !.ts[c].enabled[k[2]] = FALSE,
            !.ts[c].todo = Tail(@)]

\* restart_task_worker: the completed task is credited unless stopped
credit_task(s) ==
  IF s.stopped THEN s
  ELSE IF s.current_task = NoTask THEN Raise(s, "AttributeError")
  ELSE LET k == s.current_task
           c == s.current_task_set
           s1 == [s EXCEPT !.ts[k[1]].completed[k[2]] = TRUE, !.credited = k] IN
       IF c = None THEN Raise(s1, "AttributeError")
       ELSE IF k[2] \notin Ordinals(s1.ts[c]) THEN Raise(s1, "IndexError")
       ELSE IF s1.ts[c].deleted THEN Raise(s1, "RuntimeError")
       ELSE LET s2 == [s1 EXCEPT !.ts[c].enabled[k[2]] = FALSE] IN
            IF s2.ts[c].todo = <<>> THEN Raise(s2, "IndexError")
            ELSE [s2 EXCEPT !.ts[c].todo = Tail(@)]

\* next_task_set with a plausible defect: Finished with one task still queued
next_task_set_early(s) ==
  LET c == s.current_task_set IN
  IF Len(s.ts[c].todo) > 1 THEN s
  ELSE LET s1 == setStatus(s, c, "Finished") IN
       IF ~Ok(s1) THEN s1
       ELSE IF s1.ts[c].index < Len(s1.task_sets) - 1
            THEN populate_todo([s1 EXCEPT !.current_task_set =
                                            s1.task_sets[s1.ts[c].index + 2]])
            ELSE [s1 EXCEPT !.current_task_set = None]

\* next_task_set with a plausible defect: the next set of the list is never made current
next_task_set_none(s) ==
  LET c == s.current_task_set IN
  IF Len(s.ts[c].todo) # 0 THEN s
  ELSE LET s1 == setStatus(s, c, "Finished") IN
       IF ~Ok(s1) THEN s1 ELSE [s1 EXCEPT !.current_task_set = None]

\* restart_task_worker: "Check for more tasks in current list"
next_task_set(s) ==
  LET c == s.current_task_set IN
  IF Len(s.ts[c].todo) # 0 THEN s
  ELSE LET s1 == setStatus(s, c, "Finished") IN
       IF ~Ok(s1) THEN s1
       ELSE IF s1.ts[c].index < Len(s1.task_sets) - 1
            THEN populate_todo([s1 EXCEPT !.current_task_set =
                                            s1.task_sets[s1.ts[c].index + 2]])
            ELSE [s1 EXCEPT !.current_task_set = None]

\* check_paused_stopped with a plausible defect: paused is not looked at
check_stopped_only(s) ==
  IF s.stopped
  THEN IF s.current_task_set = None THEN Raise(s, "AttributeError")
       ELSE LET s1 == setStatus(s, s.current_task_set, "Error") IN
            IF ~Ok(s1) THEN s1
            ELSE [s1 EXCEPT !.current_task_set = None,
                            !.running = FALSE,
                            !.stopped = FALSE]
  ELSE start_task(s)

\* check_paused_stopped with a plausible defect: stopped is looked at before paused
check_stopped_first(s) ==
  IF s.stopped
  THEN IF s.current_task_set = None THEN Raise(s, "AttributeError")
       ELSE LET s1 == setStatus(s, s.current_task_set, "Error") IN
            IF ~Ok(s1) THEN s1
            ELSE [s1 EXCEPT !.current_task_set = None,
                            !.running = FALSE,
                            !.stopped = FALSE]
  ELSE IF s.paused THEN [s EXCEPT !.running = FALSE]
  ELSE start_task(s)

\* restart_task_worker: "Check for paused and stopped"
check_paused_stopped(s) ==
  IF s.paused THEN [s EXCEPT !.running = FALSE]
  ELSE IF s.stopped
       THEN IF s.current_task_set = None THEN Raise(s, "AttributeError")
            ELSE LET s1 == setStatus(s, s.current_task_set, "Error") IN
                 IF ~Ok(s1) THEN s1
                 ELSE [s1 EXCEPT !.current_task_set = None,
                                 !.running = FALSE,
                                 !.stopped = FALSE]
       ELSE start_task(s)

\* the slot of the worker's finished signal; s is the state with that worker
\* taken off the outstanding ones
restart_task_worker(s) ==
  LET s1 == credit_task(s) IN
  IF ~Ok(s1) THEN s1
  ELSE IF s1.current_task_set = None THEN Raise(s1, "AttributeError")
  ELSE LET s2 == update_task_bar(s1, s1.current_task_set) IN
       IF ~Ok(s2) THEN s2
       ELSE LET s3 == next_task_set(s2) IN
            IF ~Ok(s3) THEN s3 ELSE check_paused_stopped(s3)

\* ---- sweep expansion (TaskSet.create_tasks) ----
\* Values of start, stop, step and the swept parameter are multiples of one
\* grid unit.  The fixed parameters of a configuration other than bias and
\* size (offsets, set point, line time, lines per frame, repetitions) are
\* one value, fixed.

\* the choices of the sweep parameter combo box
SweepParameters == {"none", "bias", "size"}

Abs(n) == IF n < 0 THEN -n ELSE n
FloorDiv(a, b) == IF b > 0 THEN a \div b ELSE (-a) \div (-b)
CeilDiv(a, b) == -FloorDiv(-a, b)

\* len(np.arange(start, stop, step)) for step # 0: ceil((stop - start)/step)
\* computed in floating point; when the range is an exact multiple of step the
\* floating-point quotient is the integer or lies just above it (it does for
\* 0.1, 0.4, 0.1), which round_up tells
arange_len(start, stop, step, round_up) ==
  LET d == stop - start
      n == IF round_up /\ FloorDiv(d, step) * step = d
           THEN CeilDiv(d, step) + 1
           ELSE CeilDiv(d, step) IN
  IF n > 0 THEN n ELSE 0

\* ImageData(data), as the task of ordinal i
ImageData(data, i) ==
  [index |-> i, completed |-> FALSE, bias |-> data.bias, size |-> data.size,
   fixed |-> data.fixed]

\* create_tasks raises: np.arange divides by the step
create_tasks_raises(data) ==
  data.sweep_parameter # "none" /\ data.sweep_step = 0

\* create_tasks with a plausible defect: the none case runs the sweep of the bias
create_tasks_always_sweep(data, round_up) ==
  LET n == IF data.sweep_step = 0 THEN 0
           ELSE arange_len(data.sweep_start, data.sweep_stop + data.sweep_step,
                           data.sweep_step, round_up) IN
  [k \in 1..n |-> [ImageData(data, k - 1) EXCEPT
                     !.bias = data.sweep_start + (k - 1) * data.sweep_step]]

create_tasks(data, round_up) ==
  IF data.sweep_parameter = "none" THEN <<ImageData(data, 0)>>
  ELSE LET n == arange_len(data.sweep_start, data.sweep_stop + data.sweep_step,
                           data.sweep_step, round_up)
           v(k) == data.sweep_start + (k - 1) * data.sweep_step IN
       [k \in 1..n |->
          IF data.sweep_parameter = "bias"
          THEN [ImageData(data, k - 1) EXCEPT !.bias = v(k)]
          ELSE [ImageData(data, k - 1) EXCEPT !.size = v(k)]]

\* ---- the totals shown in the options panel ----
\* abs((start - stop) // step) of update_total_images and
\* update_time_to_finish, 1 without a sweep, times the repetitions; the
\* difference start - stop is a floating-point number, and when it is an exact
\* multiple of step the floor is the quotient or one below it (it is for
\* 0.1, 0.4, 0.1), which floor_low tells
image_count(data, floor_low) ==
  LET d == data.sweep_start - data.sweep_stop
      q == FloorDiv(d, data.sweep_step)
      N == IF data.sweep_parameter = "none" THEN 1
           ELSE IF floor_low /\ q * data.sweep_step = d THEN Abs(q - 1)
           ELSE Abs(q) IN
  N * data.repetitions

\* Ui_MainWindow.update_total_images: the number after "Total images: "
update_total_images(data, floor_low) == image_count(data, floor_low)

\* Ui_MainWindow.update_time_to_finish: total_time, in seconds
update_time_to_finish(data, floor_low) ==
  2 * data.line_time * data.lines_per_frame * image_count(data, floor_low)

\* ---- TaskSetList ----

\* TaskSetList.add_task_set for a configuration that expands into n tasks
add_task_set(s, n) ==
  [s EXCEPT !.ts = Append(@, NewTaskSet(Len(s.task_sets), n)),
            !.task_sets = Append(@, Len(s.ts) + 1),
            !.last_ord = Append(@, -1)]

\* Ui_MainWindow.add_task_set for the configuration data: the TaskSet is
\* constructed (create_tasks) before the list is touched
app_add_task_set(s, data, round_up) ==
  IF create_tasks_raises(data) THEN Raise(s, "ZeroDivisionError")
  ELSE add_task_set(s, Len(create_tasks(data, round_up)))

\* list.pop(idx), idx counted from 0
Pop(seq, idx) == SubSeq(seq, 1, idx) \o SubSeq(seq, idx + 2, Len(seq))

\* drop_task with a plausible defect: the task sets left are not given their new index
drop_task_no_reindex(s, idx) ==
  [s EXCEPT !.task_sets = Pop(s.task_sets, idx)]

\* TaskSetList.drop_task(idx), answered Yes: pop and setIndex of the rest
drop_task(s, idx) ==
  LET left == Pop(s.task_sets, idx) IN
  [s EXCEPT !.task_sets = left,
            !.ts = [c \in DOMAIN s.ts |->
                      IF \E k \in 1..Len(left) : left[k] = c
                      THEN [s.ts[c] EXCEPT !.index =
                              (CHOOSE k \in 1..Len(left) : left[k] = c) - 1]
                      ELSE s.ts[c]]]

\* ---- ExponentialNumber ----
\* An ExponentialNumber is [sig, exp] with sig counted in thousandths (the
\* code rounds sig to 3 decimals), its value sig/1000 * 10^exp.
Q(sig, exp) == [sig |-> sig, exp |-> exp]

\* the keys of ExponentialNumber.prefix_map
Decades == {-12, -9, -6, -3, 0, 3}

RECURSIVE Pow10(_)
Pow10(n) == IF n = 0 THEN 1 ELSE 10 * Pow10(n - 1)

\* floor(a / 10^k) and ceil(a / 10^k), k >= 0, for |a| < 10^9
FloorShift(a, k) ==
  IF k >= 9 THEN (IF a >= 0 THEN 0 ELSE -1) ELSE FloorDiv(a, Pow10(k))
CeilShift(a, k) ==
  IF k >= 9 THEN (IF a > 0 THEN 1 ELSE 0) ELSE CeilDiv(a, Pow10(k))

\* a.to_float() < b.to_float()
Lt(a, b) ==
  IF a.exp = b.exp THEN a.sig < b.sig
  ELSE IF a.exp > b.exp THEN a.sig < CeilShift(b.sig, a.exp - b.exp)
  ELSE FloorShift(a.sig, b.exp - a.exp) < b.sig

\* Bounds.clamp with a plausible defect: the significands are compared, the exponents ignored
clamp_sig_only(lower, upper, value) ==
  IF value.sig < lower.sig THEN lower
  ELSE IF upper.sig < value.sig THEN upper
  ELSE value

\* Bounds.clamp of the bounds lower, upper
clamp(lower, upper, value) ==
  IF Lt(value, lower) THEN lower
  ELSE IF Lt(upper, value) THEN upper
  ELSE value

\* A float x is [neg, m, k]: m = 0 is 0.0, otherwise m in 1000..9999 holds
\* the first four significant digits and x = +-(m/1000) * 10^k.

\* len(digits) + exponent - 3 of Decimal(x).as_tuple()
DecimalExp(x) == IF x.m = 0 THEN -2 ELSE x.k - 2

\* the exponent from_float chooses, with a plausible defect: -12 < e < -9 gives -9
snap_regular(e) ==
  IF 0 < e /\ e < 3 THEN 3
  ELSE IF -3 < e /\ e < 0 THEN 0
  ELSE IF -6 < e /\ e < -3 THEN -3
  ELSE IF -9 < e /\ e < -6 THEN -6
  ELSE IF -12 < e /\ e < -9 THEN -9
  ELSE IF e < -12 THEN -12
  ELSE e

\* the if/elif chain of from_float
snap(e) ==
  IF 0 < e /\ e < 3 THEN 3
  ELSE IF -3 < e /\ e < 0 THEN 0
  ELSE IF -6 < e /\ e < -3 THEN -3
  ELSE IF -9 < e /\ e < -6 THEN -6
  ELSE IF -12 < e /\ e < -9 THEN -6
  ELSE IF e < -12 THEN -12
  ELSE e

\* round(m / 10^k) for m >= 0, k >= 1; a value halfway between two results
\* goes up or down as its floating-point representation lies (tie_up)
RoundShift(m, k, tie_up) ==
  LET p == Pow10(k)
      lo == m \div p
      r2 == 2 * (m - lo * p) IN
  IF r2 > p \/ (r2 = p /\ tie_up) THEN lo + 1 ELSE lo

\* from_float with a plausible defect: the exponent of the leading digit is
\* snapped, not len(digits) + exponent - 3
from_float_leading(x, tie_up) ==
  LET exp == snap(IF x.m = 0 THEN 0 ELSE x.k)
      d == x.k - exp
      mag == IF x.m = 0 THEN 0
             ELSE IF d >= 0 THEN x.m * Pow10(d)
             ELSE IF -d >= 9 THEN 0
             ELSE RoundShift(x.m, -d, tie_up) IN
  Q(IF x.neg THEN -mag ELSE mag, exp)

\* ExponentialNumber.from_float
from_float(x, tie_up) ==
  LET exp == snap(DecimalExp(x))
      d == x.k - exp
      mag == IF x.m = 0 THEN 0
             ELSE IF d >= 0 THEN x.m * Pow10(d)
             ELSE IF -d >= 9 THEN 0
             ELSE RoundShift(x.m, -d, tie_up) IN
  Q(IF x.neg THEN -mag ELSE mag, exp)

\* ---- ScientificSpinBox ----
\* the bias and scan_size spin boxes as Ui_MainWindow sets them up
PanelInit ==
  /\ heap = <<Q(300000, -3), Q(100000, -9)>>
  /\ spin = [bias |-> [value |-> 1, lower |-> Q(-5000, 0), upper |-> Q(5000, 0)],
             scan_size |-> [value |-> 2, lower |-> Q(2500, -12), upper |-> Q(3000, -6)]]
  /\ descr = <<>>
  /\ real = [neg |-> FALSE, m |-> 0, k |-> 0]

\* the options panel as the handlers below see it
Panel == [heap |-> heap, spin |-> spin, exc |-> exc]

\* the digit steps of keyPressEvent, in thousandths: tenths, units, tens,
\* hundreds
Steps == {100, 1000, 10000, 100000}

\* the key presses: arrow direction, the selected grapheme, the digit's step
Keys ==
  [dir : {"up", "down"}, sel : {"digit"}, step : Steps]
    \cup [dir : {"up", "down"}, sel : {"sign", "prefix"}, step : {0}]

\* ScientificSpinBox.update_text: the value is clamped (a value outside the
\* bounds is replaced by a copy of the bound, a new object), then the prefix
\* is looked up
update_text(p, box) ==
  LET b == p.spin[box]
      v == p.heap[b.value]
      c == clamp(b.lower, b.upper, v)
      inside == ~Lt(v, b.lower) /\ ~Lt(b.upper, v)
      q == IF inside THEN p
           ELSE [p EXCEPT !.heap = Append(@, c),
                          !.spin[box].value = Len(p.heap) + 1] IN
  IF c.exp \in Decades THEN q ELSE [q EXCEPT !.exc = "KeyError"]

\* ScientificSpinBox.keyPressEvent, Up and Down arrows: self.value.sig and
\* self.value.exp are assigned in place
keyPressEvent(p, box, key) ==
  LET id == p.spin[box].value
      v == p.heap[id]
      put(sig, exp) == update_text([p EXCEPT !.heap[id] = Q(sig, exp)], box)
      s1 == IF key.dir = "up" THEN v.sig + key.step ELSE v.sig - key.step IN
  IF key.sel = "digit" THEN
    IF (key.dir = "up" /\ s1 > 1000000) \/ (key.dir = "down" /\ s1 < -1000000)
    THEN put(s1 \div 1000, v.exp + 3)
    ELSE IF 0 < Abs(s1) /\ Abs(s1) < 1000
    THEN put(s1 * 1000, v.exp - 3)
    ELSE put(s1, v.exp)
  ELSE IF key.sel = "sign" THEN
    IF (key.dir = "up" /\ v.sig < 0) \/ (key.dir = "down" /\ v.sig >= 0)
    THEN put(-v.sig, v.exp)
    ELSE p
  ELSE
    IF key.dir = "up" /\ v.exp < 3 THEN put(v.sig, v.exp + 3)
    ELSE IF key.dir = "down" /\ v.exp > -12 THEN put(v.sig, v.exp - 3)
    ELSE p

\* ---- the state after construction ----
\* the scheduler and the list after construction
SchedulerInit ==
  /\ task_sets = <<>>
  /\ ts = <<>>
  /\ current_task_set = None
  /\ current_task = NoTask
  /\ running = FALSE
  /\ paused = FALSE
  /\ stopped = FALSE
  /\ stm_paused = FALSE
  /\ stm_stopped = FALSE
  /\ pause_checked = FALSE
  /\ workers = <<>>
  /\ pending_delete = None
  /\ finish_first = FALSE
  /\ exc = NoExc
  /\ dispatched = NoTask
  /\ credited = NoTask
  /\ last_ord = <<>>
  /\ n_edits = 0
  /\ hist = <<>>

Init ==
  /\ SchedulerInit
  /\ PanelInit

\* ---- steps ----
\* Qt delivers the posted events (a deferred delete) before the next user event
UserReady == pending_delete = None

TodoBound(r) == \A c \in DOMAIN r.ts : Len(r.ts[c].todo) <= MaxTodo

InList(c) == \E k \in 1..Len(task_sets) : task_sets[k] = c

PlayStep ==
  /\ UserReady
  /\ LET r == play_clicked(State) IN TodoBound(r) /\ Commit(r)
  /\ UNCHANGED <<pending_delete, finish_first, n_edits, panel>>

\* the click toggles the checkable pause button, then the slot runs
PauseStep ==
  /\ UserReady
  /\ LET r == pause_clicked([State EXCEPT !.pause_checked = ~pause_checked])
     IN  TodoBound(r) /\ Commit(r)
  /\ UNCHANGED <<pending_delete, finish_first, n_edits, panel>>

StopStep ==
  /\ UserReady
  /\ Commit(stop_clicked(State))
  /\ UNCHANGED <<pending_delete, finish_first, n_edits, panel>>

\* an outstanding worker emits finished and the slot runs
CompleteStep ==
  /\ workers # <<>>
  /\ pending_delete = None \/ finish_first
  /\ \E k \in 1..Len(workers) :
       LET r == restart_task_worker([State EXCEPT !.workers = Pop(workers, k - 1)])
       IN  TodoBound(r) /\ Commit(r)
  /\ finish_first' = FALSE
  /\ UNCHANGED <<pending_delete, n_edits, panel>>

Play == PlayStep /\ UNCHANGED hist
Pause == PauseStep /\ UNCHANGED hist
Stop == StopStep /\ UNCHANGED hist
Complete == CompleteStep /\ UNCHANGED hist

\* the "Add Task Set" button, for a configuration that expands into n tasks
AddTaskSet ==
  /\ UserReady
  /\ Len(ts) < MaxAdds
  /\ \E n \in 0..MaxTasks : Commit(add_task_set(State, n))
  /\ UNCHANGED <<pending_delete, finish_first, n_edits, hist, panel>>

\* a click on an enabled check box of a task set shown in the list
ToggleTask ==
  /\ UserReady
  /\ n_edits < MaxEdits
  /\ \E c \in DOMAIN ts : \E i \in Ordinals(ts[c]) :
       /\ InList(c)
       /\ ts[c].enabled[i]
       /\ Commit([State EXCEPT !.ts[c].checked[i] = ~@])
  /\ n_edits' = n_edits + 1
  /\ UNCHANGED <<pending_delete, finish_first, hist, panel>>

\* "Remove Task Set" of a task set shown in the list, confirmed; the worker may
\* have emitted finished while the slot ran, before deleteLater() was posted
DropTask ==
  /\ UserReady
  /\ n_edits < MaxEdits
  /\ \E c \in DOMAIN ts :
       /\ InList(c)
       /\ Commit(drop_task(State, ts[c].index))
       /\ pending_delete' = c
  /\ finish_first' \in (IF workers # <<>> THEN BOOLEAN ELSE {FALSE})
  /\ n_edits' = n_edits + 1
  /\ UNCHANGED <<hist, panel>>

\* the event loop runs the deferred delete: the widgets of the removed task
\* set are destroyed, and a later Qt call on one of them raises RuntimeError
DeferredDelete ==
  /\ pending_delete # None
  /\ ~finish_first
  /\ Commit([State EXCEPT !.ts[pending_delete].deleted = TRUE])
  /\ pending_delete' = None
  /\ UNCHANGED <<finish_first, n_edits, hist, panel>>

Next ==
  \/ Play
  \/ Pause
  \/ Stop
  \/ Complete
  \/ AddTaskSet
  \/ ToggleTask
  \/ DropTask
  \/ DeferredDelete

Spec == Init /\ [][Next]_vars

\* ---- scenarios: calls made on a list of task sets just added ----
FreshSizes == UNION {[1..n -> 0..MaxFreshTasks] : n \in 0..MaxFresh}

InitFresh ==
  /\ \E sizes \in FreshSizes :
       /\ ts = [k \in 1..Len(sizes) |-> NewTaskSet(k - 1, sizes[k])]
       /\ task_sets = [k \in 1..Len(sizes) |-> k]
       /\ last_ord = [k \in 1..Len(sizes) |-> -1]
  /\ current_task_set = None
  /\ current_task = NoTask
  /\ running = FALSE
  /\ paused = FALSE
  /\ stopped = FALSE
  /\ stm_paused = FALSE
  /\ stm_stopped = FALSE
  /\ pause_checked = FALSE
  /\ workers = <<>>
  /\ pending_delete = None
  /\ finish_first = FALSE
  /\ exc = NoExc
  /\ dispatched = NoTask
  /\ credited = NoTask
  /\ n_edits = 0
  /\ hist = <<>>
  /\ PanelInit

\* play, pause, stop and completions, the calls recorded
CtlPlay == Len(hist) < MaxHist /\ PlayStep /\ hist' = Append(hist, "play")
CtlPause == Len(hist) < MaxHist /\ PauseStep /\ hist' = Append(hist, "pause")
CtlStop == Len(hist) < MaxHist /\ StopStep /\ hist' = Append(hist, "stop")
CtlComplete == Len(hist) < MaxHist /\ CompleteStep /\ hist' = Append(hist, "complete")

NextControl == CtlPlay \/ CtlPause \/ CtlStop \/ CtlComplete

SpecControl == InitFresh /\ [][NextControl]_vars

\* the worker reports a failure for the task it was handed: through finished,
\* the one signal of the worker that start_task connects, or by ending
\* without a signal
WorkerFailStep ==
  /\ workers # <<>>
  /\ pending_delete = None
  /\ \/ CompleteStep
     \/ /\ Commit([State EXCEPT !.workers = Tail(workers)])
        /\ UNCHANGED <<pending_delete, finish_first, n_edits, panel>>

CtlFail == Len(hist) < MaxHist /\ WorkerFailStep /\ hist' = Append(hist, "fail")

NextFail == CtlPlay \/ CtlPause \/ CtlStop \/ CtlComplete \/ CtlFail

SpecFail == InitFresh /\ [][NextFail]_vars

\* play and completions only, the calls recorded
RunPlay == Len(hist) < MaxRun /\ PlayStep /\ hist' = Append(hist, "play")
RunComplete == Len(hist) < MaxRun /\ CompleteStep /\ hist' = Append(hist, "complete")

NextRun == RunPlay \/ RunComplete

SpecRun == InitFresh /\ [][NextRun]_vars

\* one configuration entered in the options panel and added to the empty list,
\* then play and completions; the calls recorded with the configuration and the
\* tasks create_tasks made of it
SweepVals == -1..MaxSweepVal

Configs ==
  [sweep_parameter : SweepParameters, sweep_start : SweepVals,
   sweep_stop : SweepVals, sweep_step : SweepVals,
   bias : 1..2, size : 1..2, fixed : 1..2]

SweepAdd ==
  /\ UserReady
  /\ hist = <<>>
  /\ \E data \in Configs : \E round_up \in BOOLEAN :
       LET r == app_add_task_set(State, data, round_up) IN
       /\ Commit(r)
       /\ hist' = <<[op |-> "add", data |-> data,
                     tasks |-> IF Ok(r) THEN create_tasks(data, round_up) ELSE <<>>]>>
  /\ UNCHANGED <<pending_delete, finish_first, n_edits, panel>>

SweepPlay ==
  /\ hist # <<>>
  /\ Len(hist) < MaxSweepCalls
  /\ PlayStep
  /\ hist' = Append(hist, [op |-> "play"])

SweepComplete ==
  /\ hist # <<>>
  /\ Len(hist) < MaxSweepCalls
  /\ CompleteStep
  /\ hist' = Append(hist, [op |-> "complete"])

NextSweep == SweepAdd \/ SweepPlay \/ SweepComplete

SpecSweep == Init /\ [][NextSweep]_vars

\* ---- the totals: the panel shows the image count and the time of a
\* configuration, the configuration is added, then play and completions ----
LinesPerFrame == {8, 16}

\* the configurations whose totals the panel can show: a sweep step of 0 makes
\* the floor division of update_total_images raise
CountConfigs ==
  {d \in [sweep_parameter : SweepParameters, sweep_start : SweepVals,
          sweep_stop : SweepVals, sweep_step : SweepVals,
          bias : {1}, size : {1}, fixed : {1},
          repetitions : 1..MaxRepetitions, line_time : 1..2,
          lines_per_frame : LinesPerFrame] :
     d.sweep_parameter = "none" \/ d.sweep_step # 0}

CountAdd ==
  /\ UserReady
  /\ hist = <<>>
  /\ \E data \in CountConfigs : \E round_up \in BOOLEAN, floor_low \in BOOLEAN :
       LET r == app_add_task_set(State, data, round_up) IN
       /\ Commit(r)
       /\ hist' = <<[op |-> "add", data |-> data,
                     tasks |-> create_tasks(data, round_up),
                     total_tasks |-> update_total_images(data, floor_low),
                     total_time |-> update_time_to_finish(data, floor_low)]>>
  /\ UNCHANGED <<pending_delete, finish_first, n_edits, panel>>

NextCount == CountAdd \/ SweepPlay \/ SweepComplete

SpecCount == Init /\ [][NextCount]_vars

\* ---- editing the panel: task sets are added without a sweep and keys are
\* pressed in the bias and scan_size boxes ----
EditAdd ==
  /\ Len(hist) < MaxKeys + MaxEditAdds
  /\ Len(task_sets) < MaxEditAdds
  /\ exc = NoExc
  /\ LET data == [sweep_parameter |-> "none", sweep_start |-> 0, sweep_stop |-> 0,
                  sweep_step |-> 0, bias |-> spin.bias.value,
                  size |-> spin.scan_size.value, fixed |-> 1] IN
       /\ Commit(app_add_task_set(State, data, FALSE))
       /\ descr' = Append(descr, create_tasks(data, FALSE))
  /\ hist' = Append(hist, "add")
  /\ UNCHANGED <<pending_delete, finish_first, n_edits, heap, spin, real>>

EditKey ==
  /\ Len(hist) < MaxKeys + MaxEditAdds
  /\ Len(SelectSeq(hist, LAMBDA h : h = "key")) < MaxKeys
  /\ exc = NoExc
  /\ \E box \in {"bias", "scan_size"}, key \in Keys :
       LET r == keyPressEvent(Panel, box, key) IN
         /\ heap' = r.heap
         /\ spin' = r.spin
         /\ exc' = r.exc
  /\ hist' = Append(hist, "key")
  /\ UNCHANGED <<task_sets, ts, current_task_set, current_task, running, paused,
                 stopped, stm_paused, stm_stopped, pause_checked, workers,
                 pending_delete, finish_first, dispatched, credited, last_ord,
                 n_edits, descr, real>>

NextEdit == EditAdd \/ EditKey

SpecEdit == Init /\ [][NextEdit]_vars

\* ---- keys pressed in the bias box, nothing else ----
KeyRun ==
  /\ Len(hist) < MaxKeyRun
  /\ exc = NoExc
  /\ \E key \in Keys :
       LET r == keyPressEvent(Panel, "bias", key) IN
         /\ heap' = r.heap
         /\ spin' = r.spin
         /\ exc' = r.exc
  /\ hist' = Append(hist, "key")
  /\ UNCHANGED <<task_sets, ts, current_task_set, current_task, running, paused,
                 stopped, stm_paused, stm_stopped, pause_checked, workers,
                 pending_delete, finish_first, dispatched, credited, last_ord,
                 n_edits, descr, real>>

NextKeys == KeyRun

SpecKeys == Init /\ [][NextKeys]_vars

\* ---- the list alone: task sets are added and removed while nothing runs ----
ListAdd ==
  /\ UserReady
  /\ Len(ts) < MaxListAdds
  /\ \E n \in 0..MaxTasks : Commit(add_task_set(State, n))
  /\ UNCHANGED <<pending_delete, finish_first, n_edits, hist, panel>>

ListDrop ==
  /\ UserReady
  /\ \E c \in DOMAIN ts :
       /\ InList(c)
       /\ Commit(drop_task(State, ts[c].index))
       /\ pending_delete' = c
  /\ UNCHANGED <<finish_first, n_edits, hist, panel>>

NextList == ListAdd \/ ListDrop \/ DeferredDelete

SpecList == Init /\ [][NextList]_vars

\* ---- Bounds.clamp: a spin box with any bounds and any value is refreshed ----
ClampSigs == {-999999, -2500, 0, 1, 2500, 999999}
Quantities == [sig : ClampSigs, exp : Decades]

InitClamp ==
  /\ SchedulerInit
  /\ \E lower \in Quantities, upper \in Quantities, v \in Quantities :
       /\ ~Lt(upper, lower)
       /\ heap = <<v, Q(100000, -9)>>
       /\ spin = [bias |-> [value |-> 1, lower |-> lower, upper |-> upper],
                  scan_size |-> [value |-> 2, lower |-> Q(2500, -12),
                                 upper |-> Q(3000, -6)]]
  /\ descr = <<>>
  /\ real = [neg |-> FALSE, m |-> 0, k |-> 0]

ClampStep ==
  /\ Len(hist) < MaxClamps
  /\ LET r == update_text(Panel, "bias") IN
       /\ heap' = r.heap
       /\ spin' = r.spin
       /\ exc' = r.exc
  /\ hist' = Append(hist, "clamp")
  /\ UNCHANGED <<task_sets, ts, current_task_set, current_task, running, paused,
                 stopped, stm_paused, stm_stopped, pause_checked, workers,
                 pending_delete, finish_first, dispatched, credited, last_ord,
                 n_edits, descr, real>>

NextClamp == ClampStep

SpecClamp == InitClamp /\ [][NextClamp]_vars

\* ---- ExponentialNumber.from_float: a float is converted, then its prefix
\* is looked up ----
Mantissas == {1000, 1004, 1005, 2500, 5000, 5400, 9995, 9999}
Zero == [neg |-> FALSE, m |-> 0, k |-> 0]
Floats ==
  [neg : BOOLEAN, m : Mantissas, k : (-DecadesBelow)..MaxDecade] \cup {Zero}

InitFloat ==
  /\ SchedulerInit
  /\ heap = <<Q(300000, -3), Q(100000, -9)>>
  /\ spin = [bias |-> [value |-> 1, lower |-> Q(-5000, 0), upper |-> Q(5000, 0)],
             scan_size |-> [value |-> 2, lower |-> Q(2500, -12), upper |-> Q(3000, -6)]]
  /\ descr = <<>>
  /\ real \in Floats

FromFloat ==
  /\ hist = <<>>
  /\ \E tie_up \in BOOLEAN : heap' = Append(heap, from_float(real, tie_up))
  /\ hist' = <<"from_float">>
  /\ UNCHANGED <<task_sets, ts, current_task_set, current_task, running, paused,
                 stopped, stm_paused, stm_stopped, pause_checked, workers,
                 pending_delete, finish_first, exc, dispatched, credited,
                 last_ord, n_edits, spin, descr, real>>

\* ExponentialNumber.prefix of the number just built
PrefixLookup ==
  /\ hist = <<"from_float">>
  /\ exc' = IF heap[Len(heap)].exp \in Decades THEN exc ELSE "KeyError"
  /\ hist' = Append(hist, "prefix")
  /\ UNCHANGED <<task_sets, ts, current_task_set, current_task, running, paused,
                 stopped, stm_paused, stm_stopped, pause_checked, workers,
                 pending_delete, finish_first, dispatched, credited,
                 last_ord, n_edits, heap, spin, descr, real>>

NextFloat == FromFloat \/ PrefixLookup

SpecFloat == InitFloat /\ [][NextFloat]_vars

\* ---- properties ----
Count(seq, x) == Cardinality({j \in 1..Len(seq) : seq[j] = x})
Terminal(status) == status \in {"Finished", "Error"}

\* C1: at most one dispatched task is outstanding (handed to the worker, its
\* completion not yet handled), whatever calls were made before
C1_AtMostOneOutstanding == Len(workers) <= 1

\* a completion has been handled and the next task is out, after a pause or a stop
C1_Witness ==
  /\ Len(workers) = 1
  /\ \E c \in DOMAIN ts : \E i \in Ordinals(ts[c]) : ts[c].completed[i]
  /\ stm_paused \/ stm_stopped

\* C2: a task whose completion flag is set is never dispatched again, gains no
\* new place in a todo list, and its flag is not assigned a second time
C2_NoTaskTwice ==
  [][\A c \in DOMAIN ts : \A i \in Ordinals(ts[c]) :
       ts[c].completed[i] =>
         /\ dispatched' # <<c, i>>
         /\ credited' # <<c, i>>
         /\ Count(ts'[c].todo, i) <= Count(ts[c].todo, i)]_vars

\* C3: within one task set the ordinals of the dispatched tasks strictly increase
C3_OrdinalOrder ==
  [][dispatched' # NoTask => dispatched'[2] > last_ord[dispatched'[1]]]_vars

\* C4: when a task of a set of the list is dispatched, every set before it in
\* the list is Finished
C4_ListOrder ==
  [][dispatched' # NoTask =>
       \A k \in 1..Len(task_sets') :
         task_sets'[k] = dispatched'[1] =>
           \A j \in 1..(k - 1) : ts'[task_sets'[j]].status = "Finished"]_vars

\* C5: a task set that is Finished or Error keeps that status
C5_TerminalStatus ==
  [][\A c \in DOMAIN ts : Terminal(ts[c].status) => ts'[c].status = ts[c].status]_vars

\* C6: a task set becomes Finished only in a step that credits one of its tasks
\* and leaves its todo list empty, and every such step leaves it Finished
C6_FinishedExactly ==
  [][\A c \in DOMAIN ts :
       LET emptied == credited' # NoTask /\ credited'[1] = c /\ ts'[c].todo = <<>> IN
       /\ (ts[c].status # "Finished" /\ ts'[c].status = "Finished") => emptied
       /\ emptied => ts'[c].status = "Finished"]_vars

\* a set with more than one task is Finished by the completion credited last
C6_Witness ==
  \E c \in DOMAIN ts :
    /\ ts[c].status = "Finished"
    /\ credited # NoTask /\ credited[1] = c
    /\ ts[c].todo = <<>>
    /\ NTasks(ts[c]) > 1

\* C7: a task set becomes Error only from Working on a pending stop, and from
\* then on none of its tasks is dispatched, credited or queued
C7_ErrorAbandons ==
  [][\A c \in DOMAIN ts :
       /\ (ts[c].status # "Error" /\ ts'[c].status = "Error") =>
            ts[c].status = "Working" /\ stopped
       /\ ts[c].status = "Error" =>
            /\ dispatched' = NoTask \/ dispatched'[1] # c
            /\ credited' = NoTask \/ credited'[1] # c
            /\ ts'[c].todo = ts[c].todo]_vars

\* ---- scenario properties ----
First == task_sets[1]
AllOrdinals(t) == [j \in 1..NTasks(t) |-> j - 1]

\* C8: play, then stop, then one completion: the dispatched task is not
\* credited and stays queued, the active set is Error, no task set is current,
\* running and stopped are false
C8_PlayStopComplete ==
  hist = <<"play", "stop", "complete">> =>
    /\ \A i \in Ordinals(ts[First]) : ~ts[First].completed[i]
    /\ credited = NoTask
    /\ ts[First].todo = AllOrdinals(ts[First])
    /\ ts[First].status = "Error"
    /\ current_task_set = None
    /\ ~running
    /\ ~stopped

C8_Witness ==
  /\ hist = <<"play", "stop", "complete">>
  /\ ts[First].status = "Error"
  /\ Len(task_sets) > 1

\* C9 as stated: play, then pause, then one completion: not running, paused,
\* the same set current with its todo list one task shorter, nothing dispatched
C9_PlayPauseComplete ==
  hist = <<"play", "pause", "complete">> =>
    /\ ~running
    /\ paused
    /\ current_task_set = First
    /\ Len(ts[First].todo) = NTasks(ts[First]) - 1
    /\ dispatched = NoTask
    /\ workers = <<>>

\* C9 amended: that holds when the active set had more than one task queued;
\* with one task queued the set is Finished and the next set of the list, if
\* any, is current with its todo list built, and nothing is dispatched either
C9_PlayPauseCompleteAmended ==
  hist = <<"play", "pause", "complete">> =>
    /\ ~running
    /\ paused
    /\ dispatched = NoTask
    /\ workers = <<>>
    /\ credited = <<First, 0>>
    /\ IF NTasks(ts[First]) > 1
       THEN /\ current_task_set = First
            /\ ts[First].todo = Tail(AllOrdinals(ts[First]))
            /\ ts[First].status = "Working"
       ELSE /\ ts[First].todo = <<>>
            /\ ts[First].status = "Finished"
            /\ IF Len(task_sets) > 1
               THEN /\ current_task_set = task_sets[2]
                    /\ ts[task_sets[2]].todo = AllOrdinals(ts[task_sets[2]])
                    /\ ts[task_sets[2]].status = "Ready"
               ELSE current_task_set = None

C9_Witness ==
  /\ hist = <<"play", "pause", "complete">>
  /\ NTasks(ts[First]) > 1
  /\ current_task_set = First
  /\ ts[First].todo = Tail(AllOrdinals(ts[First]))

\* tasks of the first j task sets of the list
RECURSIVE TasksUpTo(_)
TasksUpTo(j) == IF j = 0 THEN 0 ELSE TasksUpTo(j - 1) + NTasks(ts[task_sets[j]])

\* the call history is one play followed by completions only
PlayThenCompletions ==
  /\ Len(hist) >= 1
  /\ hist[1] = "play"
  /\ \A j \in 2..Len(hist) : hist[j] = "complete"

\* C10: every set has a task, all enabled, no pause or stop: after play and k
\* completions exactly the sets whose last task is among the first k tasks are
\* Finished; the set holding task k+1 is current and Working with that task in
\* flight; after the last completion no set is current and running is false
C10_PlayToEnd ==
  (/\ PlayThenCompletions
   /\ Len(task_sets) >= 1
   /\ \A j \in 1..Len(task_sets) : NTasks(ts[task_sets[j]]) >= 1) =>
    LET k == Len(hist) - 1
        n == Len(task_sets) IN
    /\ exc = NoExc
    /\ \A j \in 1..n : (ts[task_sets[j]].status = "Finished") <=> (k >= TasksUpTo(j))
    /\ \A j \in 1..n : (k >= TasksUpTo(j)) =>
         \A i \in Ordinals(ts[task_sets[j]]) : ts[task_sets[j]].completed[i]
    /\ \A j \in 1..n : (TasksUpTo(j - 1) <= k /\ k < TasksUpTo(j)) =>
         /\ current_task_set = task_sets[j]
         /\ ts[task_sets[j]].status = "Working"
         /\ running
         /\ workers = <<<<task_sets[j], k - TasksUpTo(j - 1)>>>>
    /\ (k = TasksUpTo(n)) => (current_task_set = None /\ ~running /\ workers = <<>>)

\* sets of 2 and 3 tasks: after play and 5 completions both are Finished
C10_Witness ==
  /\ hist = <<"play", "complete", "complete", "complete", "complete", "complete">>
  /\ Len(task_sets) = 2
  /\ NTasks(ts[task_sets[1]]) = 2
  /\ NTasks(ts[task_sets[2]]) = 3
  /\ ts[task_sets[1]].status = "Finished"
  /\ ts[task_sets[2]].status = "Finished"
  /\ current_task_set = None
  /\ ~running

\* ---- progress ----
\* C11: the progress of a task set, completed tasks over total_todo, is within
\* [0, 1] and does not decrease in any step
C11_ProgressMonotone ==
  [][\A c \in DOMAIN ts :
       /\ CompletedCount(ts'[c]) <= ts'[c].total_todo
       /\ CompletedCount(ts'[c]) * ts[c].total_todo
            >= CompletedCount(ts[c]) * ts'[c].total_todo]_vars

\* C12: a step that credits a task adds one completed task to its set and keeps
\* total_todo (progress grows by 1/total_todo); a completion handled under a
\* pending stop changes neither for the set of the task
C12_CreditStep ==
  [][/\ credited' # NoTask =>
          LET c == credited'[1] IN
          /\ CompletedCount(ts'[c]) = CompletedCount(ts[c]) + 1
          /\ ts'[c].total_todo = ts[c].total_todo
          /\ ts[c].total_todo > 0
     /\ (stopped /\ Len(workers') < Len(workers) /\ current_task # NoTask) =>
          LET c == current_task[1] IN
          /\ CompletedCount(ts'[c]) = CompletedCount(ts[c])
          /\ ts'[c].total_todo = ts[c].total_todo]_vars

\* ---- control calls ----
\* scheduler fields a control call must leave alone when it only sets flags
SchedulerFrame ==
  /\ current_task_set' = current_task_set
  /\ current_task' = current_task
  /\ \A c \in DOMAIN ts :
       /\ ts'[c].status = ts[c].status
       /\ ts'[c].todo = ts[c].todo
       /\ ts'[c].total_todo = ts[c].total_todo
       /\ ts'[c].completed = ts[c].completed
  /\ dispatched' = NoTask
  /\ workers' = workers

\* C13: play while running changes none of running, paused, stopped, the
\* current task set, the current task, any status, todo list or total_todo,
\* and dispatches nothing
C13_PlayWhileRunning ==
  [][(running /\ hist' = Append(hist, "play")) =>
       /\ running' = running
       /\ paused' = paused
       /\ stopped' = stopped
       /\ SchedulerFrame]_vars

\* play pressed a second time with the first task still in flight
C13_Witness ==
  /\ hist = <<"play", "play">>
  /\ running
  /\ Len(workers) = 1
  /\ current_task = <<First, 0>>

\* C14: play while not running, with no task set of the list that is not
\* Finished, raises nothing, dispatches nothing, leaves running false and
\* every task set as it was
C14_PlayNothingToRun ==
  [][(hist' = Append(hist, "play") /\ ~running /\ Unfinished(State) = {}) =>
       /\ exc' = NoExc
       /\ ~running'
       /\ dispatched' = NoTask
       /\ workers' = workers
       /\ ts' = ts]_vars

\* C15: with a task in flight, play, pause, un-pause and stop leave the current
\* task set, the current task, every status, todo list, total_todo and
\* completed flag alone and dispatch nothing; pause and stop set their flag
C15_InFlightOnlyFlags ==
  [][(workers # <<>> /\ Len(hist') = Len(hist) + 1
        /\ hist'[Len(hist')] \in {"play", "pause", "stop"}) =>
       /\ SchedulerFrame
       /\ running' = running
       /\ hist'[Len(hist')] = "play" => (paused' = paused /\ stopped' = stopped)
       /\ hist'[Len(hist')] = "pause" =>
            (paused' = ~paused /\ stm_paused' = paused' /\ stopped' = stopped)
       /\ hist'[Len(hist')] = "stop" =>
            (stopped' /\ stm_stopped' /\ paused' = paused)]_vars

\* paused and un-paused with the first task still in flight
C15_Witness ==
  /\ hist = <<"play", "pause", "pause">>
  /\ Len(workers) = 1
  /\ current_task = <<First, 0>>
  /\ ~paused

\* ---- activation ----
\* C16: a step that builds the todo list of a task set leaves it equal to the
\* tasks checked at that moment, ascending, with total_todo its length and the
\* unchecked tasks disabled; a task unchecked and disabled is not queued,
\* dispatched or credited afterwards
C16_ActivationQueue ==
  [][\A c \in DOMAIN ts :
       /\ Len(ts'[c].todo) > Len(ts[c].todo) =>
            /\ ts'[c].todo = CheckedFrom(ts[c], 0)
            /\ ts'[c].total_todo = Len(ts'[c].todo)
            /\ \A i \in Ordinals(ts[c]) : ~ts[c].checked[i] => ~ts'[c].enabled[i]
       /\ \A i \in Ordinals(ts[c]) :
            (~ts[c].checked[i] /\ ~ts[c].enabled[i]) =>
              /\ Count(ts'[c].todo, i) <= Count(ts[c].todo, i)
              /\ dispatched' # <<c, i>>
              /\ credited' # <<c, i>>]_vars

\* ---- sweep expansion ----
\* a sweep with a step and at least one value between start and stop
WellFormed(d) ==
  /\ d.sweep_step # 0
  /\ FloorDiv(d.sweep_stop - d.sweep_start, d.sweep_step) >= 0

Between(v, a, b) == (a <= v /\ v <= b) \/ (b <= v /\ v <= a)

\* C17: a sweep of bias or size yields floor((stop - start)/step) + 1 tasks,
\* task i with ordinal i and swept value start + i*step between start and stop,
\* the other parameters copied from the configuration
C17_SweepExpansion ==
  (/\ Len(hist) >= 1
   /\ hist[1].op = "add"
   /\ hist[1].data.sweep_parameter # "none"
   /\ WellFormed(hist[1].data)) =>
    LET d == hist[1].data
        t == hist[1].tasks
        Swept(x) == IF d.sweep_parameter = "bias" THEN x.bias ELSE x.size
        Other(x) == IF d.sweep_parameter = "bias" THEN x.size ELSE x.bias
        OtherOf == IF d.sweep_parameter = "bias" THEN d.size ELSE d.bias IN
    /\ Len(t) = FloorDiv(d.sweep_stop - d.sweep_start, d.sweep_step) + 1
    /\ \A k \in 1..Len(t) :
         /\ t[k].index = k - 1
         /\ Swept(t[k]) = d.sweep_start + (k - 1) * d.sweep_step
         /\ Between(Swept(t[k]), d.sweep_start, d.sweep_stop)
         /\ Other(t[k]) = OtherOf
         /\ t[k].fixed = d.fixed

\* C18: with sweep parameter none the configuration yields one task, ordinal 0,
\* with the parameters of the configuration, whatever start, stop and step are
C18_NoSweepOneTask ==
  (/\ Len(hist) >= 1
   /\ hist[1].op = "add"
   /\ hist[1].data.sweep_parameter = "none") =>
    LET d == hist[1].data
        t == hist[1].tasks IN
    /\ Len(t) = 1
    /\ t[1].index = 0
    /\ ~t[1].completed
    /\ t[1].bias = d.bias
    /\ t[1].size = d.size
    /\ t[1].fixed = d.fixed
    /\ Len(task_sets) = 1
    /\ NTasks(ts[task_sets[1]]) = 1

\* no sweep, with a step of 0 and start above stop: one task, played and completed
C18_Witness ==
  /\ Len(hist) = 3
  /\ hist[1].op = "add"
  /\ hist[1].data.sweep_parameter = "none"
  /\ hist[1].data.sweep_step = 0
  /\ hist[1].data.sweep_start > hist[1].data.sweep_stop
  /\ Len(hist[1].tasks) = 1
  /\ ts[task_sets[1]].status = "Finished"

\* C19: adding a sweep with step 0 or with no value between start and stop
\* creates no task set and leaves the list as it was
C19_MalformedRejected ==
  [][(/\ hist = <<>>
      /\ hist' # <<>>
      /\ hist'[1].op = "add"
      /\ hist'[1].data.sweep_parameter # "none"
      /\ ~WellFormed(hist'[1].data)) =>
       /\ task_sets' = task_sets
       /\ ts' = ts]_vars

\* ---- worker failure ----
\* C20: when the worker reports a failure for the dispatched task, the task is
\* not marked completed, its task set becomes Error, no task set is current,
\* running is false and no task is dispatched
C20_FailureIsError ==
  [][(Len(hist') = Len(hist) + 1 /\ hist'[Len(hist')] = "fail") =>
       LET k == workers[1] IN
       /\ ts'[k[1]].completed = ts[k[1]].completed
       /\ credited' = NoTask
       /\ ts'[k[1]].status = "Error"
       /\ current_task_set' = None
       /\ ~running'
       /\ dispatched' = NoTask]_vars

\* ---- the descriptors of an added task set ----
\* the parameter values of the descriptors of the k-th added task set
Resolved(h, k) ==
  [i \in DOMAIN descr[k] |->
     [bias |-> h[descr[k][i].bias], size |-> h[descr[k][i].size],
      fixed |-> descr[k][i].fixed, index |-> descr[k][i].index]]

\* C21: once a task set has been added, the parameter values of its task
\* descriptors never change, whatever is edited in the panel afterwards
C21_DescriptorsFrozen ==
  [][\A k \in 1..Len(descr) :
       /\ descr'[k] = descr[k]
       /\ Resolved(heap', k) = Resolved(heap, k)]_vars

\* ---- the indices of the list ----
\* C22: every task set of the list stores its position in the list as its
\* index, and the list keeps the task sets in the order they were added
C22_IndexIsPosition ==
  \A k \in 1..Len(task_sets) :
    /\ ts[task_sets[k]].index = k - 1
    /\ \A j \in 1..(k - 1) : task_sets[j] < task_sets[k]

\* a task set was removed from the middle and another one added after it
C22_Witness ==
  /\ Len(ts) = 4
  /\ task_sets = <<1, 3, 4>>
  /\ ts[3].index = 1
  /\ ts[4].index = 2

\* ---- Bounds.clamp ----
\* the value the bias box holds in the panel p
BoxValue(h, sp) == h[sp.bias.value]

\* C23: with lower <= upper the clamped value lies between lower and upper by
\* its real value, a value already inside the range is returned unchanged, and
\* clamping the clamped value again changes nothing
C23_ClampRange ==
  [][(Len(hist') = Len(hist) + 1 /\ hist'[Len(hist')] = "clamp") =>
       LET v == BoxValue(heap, spin)
           r == BoxValue(heap', spin')
           lower == spin.bias.lower
           upper == spin.bias.upper IN
       /\ ~Lt(r, lower)
       /\ ~Lt(upper, r)
       /\ (~Lt(v, lower) /\ ~Lt(upper, v)) => r = v
       /\ hist # <<>> => r = v]_vars

\* a value below the lower bound, of another decade, was clamped twice
C23_Witness ==
  /\ hist = <<"clamp", "clamp">>
  /\ spin.bias.value # 1
  /\ heap[1].exp # spin.bias.lower.exp
  /\ Lt(heap[1], spin.bias.lower)
  /\ BoxValue(heap, spin) = spin.bias.lower

\* ---- ExponentialNumber.from_float ----
\* the number from_float built
Built == heap[Len(heap)]

\* C24: whatever float is converted, the exponent of the number built is one
\* of the six decades and its prefix lookup does not fail
C24_ExponentInDecades ==
  hist # <<>> => (Built.exp \in Decades /\ exc = NoExc)

\* |sig/1000 * 10^exp - x| <= x / 2000 for the float x = m/1000 * 10^k and
\* the number q built from it, both sides scaled by 10^(3 - exp)
WithinTolerance(x, q) ==
  LET d == x.k - q.exp
      sig == Abs(q.sig) IN
  IF x.m = 0 THEN q.sig = 0
  ELSE IF d >= 0 THEN sig = x.m * Pow10(d)
  ELSE IF -d >= 9 THEN FALSE
  ELSE 2000 * Abs(sig * Pow10(-d) - x.m) <= x.m

\* C25: the number built from a float x stands for a value within 0.05% of x
C25_RoundTrip ==
  hist # <<>> => WithinTolerance(real, Built)

\* C26: from_float(5e-10) has exponent -9
C26_HalfNanoExponent ==
  (hist # <<>> /\ real = [neg |-> FALSE, m |-> 5000, k |-> -10]) =>
    Built.exp = -9

\* C26, as the code has it: from_float(5e-10) has exponent -12 and
\* significand 500
C26_HalfNanoAmended ==
  (hist # <<>> /\ real = [neg |-> FALSE, m |-> 5000, k |-> -10]) =>
    Built = Q(500000, -12)

\* 5e-10 was converted
C26_Witness ==
  /\ hist # <<>>
  /\ real = [neg |-> FALSE, m |-> 5000, k |-> -10]
  /\ Built.exp = -12

\* the exponent the table of the claim gives for e
TableExponent(e) ==
  CASE 0 < e /\ e < 3 -> 3
    [] -3 < e /\ e < 0 -> 0
    [] -6 < e /\ e < -3 -> -3
    [] -9 < e /\ e < -6 -> -6
    [] -12 < e /\ e < -9 -> -6
    [] e < -12 -> -12
    [] OTHER -> e

\* the significand of q is x / 10^q.exp rounded to 3 decimals
RoundedSignificand(x, q) ==
  LET d == x.k - q.exp
      sig == Abs(q.sig) IN
  /\ (q.sig < 0) => x.neg
  /\ (q.sig > 0) => ~x.neg
  /\ IF x.m = 0 THEN sig = 0
     ELSE IF d >= 0 THEN sig = x.m * Pow10(d)
     ELSE IF -d >= 9 THEN sig = 0
     ELSE 2 * Abs(sig * Pow10(-d) - x.m) <= Pow10(-d)

\* C28: the exponent follows the table with e the base-10 exponent of x (the
\* power of ten of its leading digit), and the significand is x / 10^exponent
\* rounded to 3 decimals
C28_TableOfLeadingDigit ==
  (hist # <<>> /\ real.m # 0) =>
    /\ Built.exp = TableExponent(real.k)
    /\ RoundedSignificand(real, Built)

\* C28, as the code has it: e is the power of ten of the leading digit of x
\* less 2 (x written with three integer digits), and -2 for x = 0; an e above
\* 3 is kept as well
C28_TableAmended ==
  hist # <<>> =>
    /\ Built.exp = TableExponent(IF real.m = 0 THEN -2 ELSE real.k - 2)
    /\ RoundedSignificand(real, Built)

\* a float between 1e-9 and 1e-8 was converted: e = -11, the row that gives -6
C28_Witness ==
  /\ hist # <<>>
  /\ real.m # 0
  /\ real.k = -9
  /\ Built.exp = -6

\* ---- the totals of a configuration ----
\* C27: the image count shown for a configuration is the number of tasks
\* generated for it (floor((stop - start)/step) + 1 for a sweep, 1 without)
\* times the repetitions, and the time shown is 2 x line time x lines per
\* frame x that count
C27_TotalsMatchTasks ==
  (hist # <<>> /\ hist[1].op = "add"
     /\ (hist[1].data.sweep_parameter = "none" \/ WellFormed(hist[1].data))) =>
    LET d == hist[1].data
        N == Len(hist[1].tasks)
        count == N * d.repetitions IN
    /\ d.sweep_parameter = "none" => N = 1
    /\ d.sweep_parameter # "none" =>
         N = FloorDiv(d.sweep_stop - d.sweep_start, d.sweep_step) + 1
    /\ hist[1].total_tasks = count
    /\ hist[1].total_time = 2 * d.line_time * d.lines_per_frame * count

\* ---- pause and stop at a completion ----
\* C29: a completion handled with paused and stopped both set credits no
\* task, leaves the status of the current set and the current set as they
\* are, sets running to false and keeps stopped; stopped is only cleared by a
\* completion handled with paused false
C29_PauseBeforeStop ==
  [][/\ (Len(hist') = Len(hist) + 1 /\ hist'[Len(hist')] = "complete"
           /\ paused /\ stopped) =>
          /\ exc' = NoExc
          /\ credited' = NoTask
          /\ \A c \in DOMAIN ts :
               /\ ts'[c].completed = ts[c].completed
               /\ ts'[c].status = ts[c].status
               /\ ts'[c].todo = ts[c].todo
          /\ current_task_set' = current_task_set
          /\ current_task_set' # None
          /\ ~running'
          /\ dispatched' = NoTask
          /\ paused'
          /\ stopped'
     /\ (stopped /\ ~stopped') =>
          /\ Len(hist') = Len(hist) + 1
          /\ hist'[Len(hist')] = "complete"
          /\ ~paused]_vars

\* play, pause, stop, then the completion of the task in flight
C29_Witness ==
  /\ hist = <<"play", "pause", "stop", "complete">>
  /\ paused
  /\ stopped
  /\ ~running
  /\ current_task_set = First
  /\ ts[First].status = "Working"
  /\ workers = <<>>

\* ---- the check boxes of a task set ----
\* the step is a click on a check box
ToggleStep == n_edits' = n_edits + 1 /\ task_sets' = task_sets

\* the step makes the task set c current, c never having been active
Activates(c) ==
  /\ current_task_set # c
  /\ current_task_set' = c
  /\ ts[c].status = "Ready"
  /\ ts[c].todo = <<>>
  /\ exc' = NoExc

\* C30: a click on a check box changes nothing but that box, whichever set
\* is active; when a task set that was never active becomes current, at play
\* or at the completion that finishes the set before it, its todo list is
\* the tasks whose boxes are checked at that moment, in ascending order
C30_LateBinding ==
  [][/\ ToggleStep =>
          /\ \A c \in DOMAIN ts :
               [ts'[c] EXCEPT !.checked = ts[c].checked] = ts[c]
          /\ current_task_set' = current_task_set
          /\ current_task' = current_task
          /\ workers' = workers
          /\ running' = running
          /\ dispatched' = NoTask
     /\ \A c \in DOMAIN ts :
          Activates(c) =>
            LET todo == ts'[c].todo IN
            /\ \A i \in Ordinals(ts[c]) :
                 (\E j \in 1..Len(todo) : todo[j] = i) <=> ts[c].checked[i]
            /\ \A j \in 1..Len(todo) : \A k \in 1..Len(todo) :
                 j < k => todo[j] < todo[k]]_vars

\* the second task set of the list was made current by the completion that
\* finished the first, after the box of its task 0 had been unchecked
C30_Witness ==
  /\ Len(task_sets) = 2
  /\ ts[task_sets[1]].status = "Finished"
  /\ current_task_set = task_sets[2]
  /\ running
  /\ exc = NoExc
  /\ NTasks(ts[task_sets[2]]) = 2
  /\ ~ts[task_sets[2]].checked[0]
  /\ ~ts[task_sets[2]].completed[0]
  /\ ts[task_sets[2]].todo = <<1>>
  /\ dispatched = <<task_sets[2], 1>>

\* ---- un-pause and play ----
\* the step is a click that unchecks the pause button
UnpauseStep == pause_checked /\ ~pause_checked'

C32_HeldValueInvariant ==
  \A box \in {"bias", "scan_size"} :
    LET v == heap[spin[box].value] IN
    /\ v.exp \in Decades
    /\ ~Lt(v, spin[box].lower)
    /\ ~Lt(spin[box].upper, v)

\* ---- running and the task in flight ----
\* C33: running holds exactly when one task is outstanding, and while running
\* the current task set is not None, its status is Working and the current
\* task is the head of its todo list
C33_RunningMeansInFlight ==
  /\ running <=> Len(workers) = 1
  /\ running =>
       /\ current_task_set # None
       /\ ts[current_task_set].status = "Working"
       /\ ts[current_task_set].todo # <<>>
       /\ current_task = <<current_task_set, Head(ts[current_task_set].todo)>>

\* ---- completion of the selected tasks ----
\* C34: whenever a task set is Finished, every task of it that was checked
\* when the set was activated is completed
C34_NoSelectedTaskSkipped ==
  \A c \in DOMAIN ts :
    ts[c].status = "Finished" =>
      \A i \in Ordinals(ts[c]) : ts[c].checked[i] => ts[c].completed[i]

\* a set of two tasks was finished with a pause between its completions
C34_Witness ==
  /\ hist = <<"play", "complete", "pause", "complete">>
  /\ NTasks(ts[First]) = 2
  /\ ts[First].status = "Finished"
  /\ ts[First].completed[0]
  /\ ts[First].completed[1]
  /\ paused

\* ---- activating a task set without a selected task ----
\* C35: a step that makes a task set Working raises nothing, leaves the set
\* with a non-empty todo list and with a positive count of selected tasks
C35_ActivationNeverFails ==
  [][\A c \in DOMAIN ts :
       (ts[c].status # "Working" /\ ts'[c].status = "Working") =>
         /\ exc' = NoExc
         /\ ts'[c].todo # <<>>
         /\ ts'[c].total_todo > 0]_vars

\* ---- the current task set and the list ----
\* C36: a current task set that is not None is an element of the task-set
\* list and its stored index is its position there
C36_CurrentSetInList ==
  current_task_set # None =>
    \E k \in 1..Len(task_sets) :
      /\ task_sets[k] = current_task_set
      /\ ts[current_task_set].index = k - 1

\* ---- the flags handed to the worker ----
\* C37: the flags of the scan thread manager mirror those of the main window:
\* stm.paused = paused and stm.stopped = stopped in every state
C37_WorkerFlagsMirror ==
  /\ stm_paused = paused
  /\ stm_stopped = stopped

\* ---- a stop requested while idle ----
\* C38: after a stop pressed while nothing runs, a play and the completion of
\* the task it dispatched, that task is credited and its set is not Error
C38_IdleStopNotCarried ==
  hist = <<"stop", "play", "complete">> =>
    /\ ts[First].completed[0]
    /\ ts[First].status # "Error"

\* ---- a run left to itself ----
\* a stop before the run, one play, check-box clicks and completions; every
\* finished signal a worker emits is delivered by the event loop
LiveStop == hist = <<>> /\ StopStep /\ hist' = <<"stop">>
LivePlay == hist \in {<<>>, <<"stop">>} /\ PlayStep /\ hist' = Append(hist, "play")

NextLive == LiveStop \/ LivePlay \/ ToggleTask \/ Complete

\* a worker is outstanding and its finished signal can be handled: the
\* enabling condition of Complete
CanComplete == workers # <<>> /\ (pending_delete = None \/ finish_first)

SpecLive == InitFresh /\ [][NextLive]_vars /\ WF_vars(Complete)

\* play was pressed and every set of the list has a checked task
PlayPressed ==
  /\ hist # <<>>
  /\ hist[Len(hist)] = "play"
  /\ \A k \in 1..Len(task_sets) :
       \E i \in Ordinals(ts[task_sets[k]]) : ts[task_sets[k]].checked[i]

\* every set is Finished with all the tasks queued at its activation
\* completed, no set is current and nothing runs
RunEnded ==
  /\ \A k \in 1..Len(task_sets) :
       LET t == ts[task_sets[k]] IN
       /\ t.status = "Finished"
       /\ t.todo = <<>>
       /\ CompletedCount(t) = t.total_todo
  /\ current_task_set = None
  /\ ~running
  /\ workers = <<>>

\* C39: once play is pressed on a list whose sets all have a selected task,
\* with no pause, stop or removal afterwards and every completion delivered,
\* the run ends with every set Finished, its selected tasks completed, no
\* current task set and running false: whenever no completion is left to
\* deliver after the play, that end state has been reached
C39_RunsToEnd ==
  (PlayPressed /\ ~CanComplete) => RunEnded

====
